---- MODULE Spec2Model ----
(***************************************************************************)
(* Model of src/rust/src/main.rs: a one-shot workflow against a regtest    *)
(* node.  It provisions the wallets Miner and Trader, mines 101 blocks,    *)
(* pays the Trader, mines one confirming block, reconstructs the           *)
(* transaction's provenance from raw transaction data and writes a ten     *)
(* line record to ../out.txt.                                              *)
(*                                                                         *)
(* The node is the environment: every answer it gives is drawn from a      *)
(* small set.  Amounts the node reports in BTC (JSON numbers) are counted  *)
(* in tenths of a satoshi, so that a number can be more precise than the   *)
(* Amount type allows; Amount and SignedAmount are counted in satoshi.     *)
(***************************************************************************)
EXTENDS Integers, Sequences, FiniteSets, TLC

\* Bounds of the model.
MaxVout == 3        \* outputs of the transaction under reconstruction (SpecRecon)
MaxVoutRun == 1     \* outputs of that transaction in the whole-run model (Spec)
MaxPrevVout == 1    \* outputs of the referenced previous transaction

\* Option<T>: None is the empty tuple, Some(x) the one-element tuple.
None == << >>
Some(x) == << x >>
IsSome(o) == Len(o) = 1
Unwrap(o) == o[1]

\* String::new()
EmptyString == << >>

-----------------------------------------------------------------------------
\* Addresses.  An address string is <<human-readable prefix, payload>>.

Regtest == "regtest"
Mainnet == "bitcoin"

HrpOf(network) == IF network = Regtest THEN "bcrt" ELSE "bc"

AddrStr(network, payload) == << HrpOf(network), payload >>
GarbageStr == << "??", "garbage" >>

\* Address::from_str: Err for a string that is no address of any network.
from_str(s) ==
    IF s[1] = "bcrt" THEN [ok |-> TRUE, network |-> Regtest, payload |-> s[2]]
    ELSE IF s[1] = "bc" THEN [ok |-> TRUE, network |-> Mainnet, payload |-> s[2]]
    ELSE [ok |-> FALSE, network |-> "", payload |-> ""]

\* Address<NetworkUnchecked>::require_network(n).ok()
require_network(a, n) ==
    IF a.network = n THEN Some([network |-> a.network, payload |-> a.payload])
    ELSE None

\* Address::to_string
to_string(a) == << HrpOf(a.network), a.payload >>

\* Option<Address>::map_or(String::new(), |a| a.to_string())
addr_line(o) == IF IsSome(o) THEN to_string(Unwrap(o)) ELSE EmptyString

MinerAddr  == [network |-> Regtest, payload |-> "miner"]
TraderAddr == [network |-> Regtest, payload |-> "trader"]
ChangeAddr == [network |-> Regtest, payload |-> "change"]
OtherAddr  == [network |-> Regtest, payload |-> "other"]

-----------------------------------------------------------------------------
\* Amounts.

\* Amount::from_btc(f64): Err for a negative number and for one with more
\* than eight decimals; otherwise the number of satoshi.
from_btc(v) ==
    IF v < 0 THEN None
    ELSE IF v % 10 # 0 THEN None
    ELSE Some(v \div 10)

\* Amount::to_btc / SignedAmount::to_btc
to_btc(sat) == sat * 10

\* SignedAmount::abs
Abs(x) == IF x < 0 THEN -x ELSE x

\* tx_details.fee.unwrap_or(SignedAmount::from_sat(0)).abs() without the abs
fee_raw(fee_opt) == IF IsSome(fee_opt) THEN Unwrap(fee_opt) ELSE 0

\* tx_details.fee.unwrap_or(SignedAmount::from_sat(0)).abs()
normalize_fee(fee_opt) == Abs(IF IsSome(fee_opt) THEN Unwrap(fee_opt) ELSE 0)

\* tx_details.info.blockheight.unwrap_or(0)
height_or_default(h) == IF IsSome(h) THEN Unwrap(h) ELSE 0

-----------------------------------------------------------------------------
\* Raw transaction data (serde_json values).  A vout entry has an optional
\* scriptPubKey.address string and an optional numeric value.

Vout(addr, value) == [address |-> addr, value |-> value]

OutTrader   == Vout(Some(to_string(TraderAddr)), Some(200))
OutChange   == Vout(Some(to_string(ChangeAddr)), Some(290))
OutOther    == Vout(Some(to_string(OtherAddr)), Some(50))
OutNoAddr   == Vout(None, Some(30))
OutMainnet  == Vout(Some(AddrStr(Mainnet, "foreign")), Some(40))
OutGarbage  == Vout(Some(GarbageStr), Some(60))
OutPrecise  == Vout(Some(to_string(ChangeAddr)), Some(15))
OutNoValue  == Vout(Some(to_string(OtherAddr)), None)

Outputs ==
    { OutTrader, OutChange, OutOther, OutNoAddr, OutMainnet, OutGarbage,
      OutPrecise, OutNoValue }

PrevFunded   == Vout(Some(to_string(MinerAddr)), Some(500))
PrevNoAddr   == Vout(None, Some(510))
PrevMainnet  == Vout(Some(AddrStr(Mainnet, "foreign")), Some(520))
PrevGarbage  == Vout(Some(GarbageStr), Some(530))
PrevNegative == Vout(Some(to_string(MinerAddr)), Some(-10))

PrevOutputs == { PrevFunded, PrevNoAddr, PrevMainnet, PrevGarbage, PrevNegative }

SeqsUpTo(S, n) == UNION { [1..k -> S] : k \in 0..n }

\* A vin entry: txid is absent for a coinbase input.
Vin(txid, vout) == [txid |-> txid, vout |-> vout]

VinLists ==
    { << >>, << Vin(None, 0) >> }
      \cup { << Vin(Some("prev"), i) >> : i \in 0..MaxPrevVout }

\* The outputs the node reports in the whole-run model.
RunOutputs == { OutTrader, OutGarbage }

TxViews(outs, n) == { [vin |-> vi, vout |-> vo] : vi \in VinLists, vo \in SeqsUpTo(outs, n) }

\* What the node answers to getrawtransaction(prev_txid, true).
PrevErr == [tag |-> "err", vout |-> << >>]
PrevOk(vo) == [tag |-> "ok", vout |-> vo]
PrevNotAsked == [tag |-> "not_asked", vout |-> << >>]
PrevResponses == { PrevErr } \cup { PrevOk(vo) : vo \in SeqsUpTo(PrevOutputs, MaxPrevVout) }

-----------------------------------------------------------------------------
\* parse_addr_amount and the two computations built on it.

Panicked == [tag |-> "panic", addr |-> None, amt |-> 0]
Skipped  == [tag |-> "none", addr |-> None, amt |-> 0]
Parsed(a, m) == [tag |-> "some", addr |-> a, amt |-> m]

\* The closure parse_addr_amount: None when the address string or the value
\* is missing or the value is no Amount, a panic on an address string that
\* does not parse, otherwise (address if it is a regtest one, amount).
parse_addr_amount(vout) ==
    IF ~IsSome(vout.address) THEN Skipped
    ELSE LET a == from_str(Unwrap(vout.address)) IN
         IF ~a.ok THEN Panicked
         ELSE IF ~IsSome(vout.value) THEN Skipped
         ELSE LET m == from_btc(Unwrap(vout.value)) IN
              IF ~IsSome(m) THEN Skipped
              ELSE Parsed(require_network(a, Regtest), Unwrap(m))

\* The value used when input resolution yields nothing (lines 164-167).
input_default == Parsed(None, 0)

\* Input resolution as a bug would have it: a failed fetch or an index out
\* of range ends the run instead of degrading.
resolve_input_strict(tx, resp) ==
    IF Len(tx.vin) = 0 THEN input_default
    ELSE LET vin == tx.vin[1] IN
         IF ~IsSome(vin.txid) THEN input_default
         ELSE IF resp.tag # "ok" THEN Panicked
         ELSE IF vin.vout < 0 THEN input_default
         ELSE IF vin.vout >= Len(resp.vout) THEN Panicked
         ELSE LET r == parse_addr_amount(resp.vout[vin.vout + 1]) IN
              IF r.tag = "none" THEN input_default ELSE r

\* Input resolution: the first vin entry, its txid, the previous transaction
\* as the node returned it (resp), the output at the entry's index, parsed.
\* Every missing piece yields the default; only a panic in parsing escapes.
resolve_input(tx, resp) ==
    IF Len(tx.vin) = 0 THEN input_default
    ELSE LET vin == tx.vin[1] IN
         IF ~IsSome(vin.txid) THEN input_default
         ELSE IF resp.tag # "ok" THEN input_default
         ELSE IF vin.vout < 0 THEN input_default
         ELSE IF vin.vout >= Len(resp.vout) THEN input_default
         ELSE LET r == parse_addr_amount(resp.vout[vin.vout + 1]) IN
              IF r.tag = "none" THEN input_default ELSE r

\* Whether input resolution asks the node for the previous transaction.
fetches_prev(tx) == Len(tx.vin) > 0 /\ IsSome(tx.vin[1].txid)

\* The fold's initial accumulator (line 178).
fold_init == [trader_amt |-> 0, change_addr |-> None, change_amt |-> 0]

\* The fold step as a bug would have it: the payment branch forgets the
\* change seen so far.
fold_step_reset(acc, item, trader) ==
    IF item.addr = Some(trader)
    THEN [trader_amt |-> item.amt, change_addr |-> None, change_amt |-> 0]
    ELSE [trader_amt |-> acc.trader_amt, change_addr |-> item.addr,
          change_amt |-> item.amt]

\* The fold step as a bug would have it: the first change candidate is kept.
fold_step_first(acc, item, trader) ==
    IF item.addr = Some(trader)
    THEN [acc EXCEPT !.trader_amt = item.amt]
    ELSE IF IsSome(acc.change_addr) THEN acc
    ELSE [trader_amt |-> acc.trader_amt, change_addr |-> item.addr,
          change_amt |-> item.amt]

\* The fold step (lines 179-185).
fold_step(acc, item, trader) ==
    IF item.addr = Some(trader)
    THEN [acc EXCEPT !.trader_amt = item.amt]
    ELSE [trader_amt |-> acc.trader_amt, change_addr |-> item.addr,
          change_amt |-> item.amt]

\* filter_map(parse_addr_amount).fold(...) over the vout list, lazily: a
\* panic in parsing an entry ends the run before later entries are read.
RECURSIVE classify(_, _, _)
classify(vouts, acc, trader) ==
    IF vouts = << >> THEN [tag |-> "some", acc |-> acc]
    ELSE LET r == parse_addr_amount(Head(vouts)) IN
         IF r.tag = "panic" THEN [tag |-> "panic", acc |-> acc]
         ELSE IF r.tag = "none" THEN classify(Tail(vouts), acc, trader)
         ELSE classify(Tail(vouts), fold_step(acc, r, trader), trader)

-----------------------------------------------------------------------------
\* The program.

VARIABLES
    pc,                    \* the step main is at (where it ended, once status is not "running")
    status,                \* "running", "ok" (Ok(())), "error" (Err returned by ?), "panic"
    rpc_log,               \* the calls issued to the node, in order
    existing_wallets,      \* list_wallet_dir() as observed
    loaded_wallets,        \* list_wallets() as observed
    wallet_idx,            \* iterations of the provisioning loop entered
    miner_address,
    trader_address,
    send_tx,
    tx_details,            \* get_transaction() as the node answered
    fee,
    block_height,
    block_hash,
    tx_raw,
    prev_tx,               \* the node's answer to the fetch of the previous transaction
    input_address,
    input_amount,
    trader_output_amount,
    change_address,
    change_amount,
    out_file               \* ../out.txt

wallet_vars == << existing_wallets, loaded_wallets, wallet_idx >>
addr_vars == << miner_address, trader_address, send_tx >>
details_vars == << tx_details, fee, block_height, block_hash >>
input_vars == << prev_tx, input_address, input_amount >>
output_vars == << trader_output_amount, change_address, change_amount >>

vars ==
    << pc, status, rpc_log, wallet_vars, addr_vars, details_vars, tx_raw,
       input_vars, output_vars, out_file >>

target_wallets == << "Miner", "Trader" >>

WalletNames == { "Miner", "Trader" }

Networks == { Regtest, Mainnet }

Call(method, name, n) == [method |-> method, name |-> name, n |-> n]

\* The order of main's steps as a bug would have it: the transaction's
\* details are read before the confirming block is mined.
StepsEarlyRead ==
    << "get_blockchain_info", "list_wallet_dir", "list_wallets", "provision",
       "miner_address", "generate_101", "trader_address", "send", "mempool",
       "get_transaction", "generate_1", "balance", "get_raw",
       "resolve_input", "classify", "create_file", "write", "done" >>

\* The order of main's steps.
Steps ==
    << "get_blockchain_info", "list_wallet_dir", "list_wallets", "provision",
       "miner_address", "generate_101", "trader_address", "send", "mempool",
       "generate_1", "balance", "get_transaction", "get_raw",
       "resolve_input", "classify", "create_file", "write", "done" >>

StepIndex(p) == CHOOSE i \in 1..Len(Steps) : Steps[i] = p

\* The statement that follows step p in main.
step_after(p) == Steps[StepIndex(p) + 1]

\* The node call each step of main makes through `?`.
RpcAt(p) ==
    CASE p = "get_blockchain_info" -> Call("getblockchaininfo", "", 0)
      [] p = "list_wallet_dir"     -> Call("listwalletdir", "", 0)
      [] p = "list_wallets"        -> Call("listwallets", "", 0)
      [] p = "miner_address"       -> Call("getnewaddress", "Miner", 0)
      [] p = "generate_101"        -> Call("generatetoaddress", "Miner", 101)
      [] p = "trader_address"      -> Call("getnewaddress", "Trader", 0)
      [] p = "send"                -> Call("sendtoaddress", "Miner", 0)
      [] p = "mempool"             -> Call("getmempoolentry", "Miner", 0)
      [] p = "generate_1"          -> Call("generatetoaddress", "Miner", 1)
      [] p = "balance"             -> Call("getbalance", "Trader", 0)
      [] p = "get_transaction"     -> Call("gettransaction", "Miner", 0)
      [] p = "get_raw"             -> Call("getrawtransaction", "tx", 0)

RpcSteps == { Steps[i] : i \in { 1, 2, 3 } \cup 5..13 }

NoDetails == [read |-> FALSE, fee |-> None, blockheight |-> None, blockhash |-> None]

TxDetails ==
    { [read |-> TRUE, fee |-> f, blockheight |-> h, blockhash |-> b] :
        f \in { None, Some(-15000), Some(15000) },
        h \in { None, Some(102) },
        b \in { None, Some("hash102") } }

NoTx == [vin |-> << >>, vout |-> << >>]

NoFile == [exists |-> FALSE, lines |-> << >>]

Init ==
    /\ pc = "get_blockchain_info"
    /\ status = "running"
    /\ rpc_log = << >>
    /\ existing_wallets = {}
    /\ loaded_wallets = {}
    /\ wallet_idx = 0
    /\ miner_address = None
    /\ trader_address = None
    /\ send_tx = None
    /\ tx_details = NoDetails
    /\ fee = 0
    /\ block_height = 0
    /\ block_hash = None
    /\ tx_raw = NoTx
    /\ prev_tx = PrevNotAsked
    /\ input_address = None
    /\ input_amount = 0
    /\ trader_output_amount = 0
    /\ change_address = None
    /\ change_amount = 0
    /\ out_file = NoFile

\* A step that only issues its call and goes on.
Proceed(p) ==
    /\ status = "running"
    /\ pc = p
    /\ rpc_log' = Append(rpc_log, RpcAt(p))
    /\ pc' = step_after(p)
    /\ UNCHANGED status

\* Any node call made through `?` fails: main returns the error.
RpcFails ==
    /\ status = "running"
    /\ pc \in RpcSteps
    /\ rpc_log' = Append(rpc_log, RpcAt(pc))
    /\ status' = "error"
    /\ UNCHANGED << pc, wallet_vars, addr_vars, details_vars, tx_raw, input_vars,
                    output_vars, out_file >>

GetBlockchainInfo ==
    /\ Proceed("get_blockchain_info")
    /\ UNCHANGED << wallet_vars, addr_vars, details_vars, tx_raw, input_vars,
                    output_vars, out_file >>

ListWalletDir ==
    /\ Proceed("list_wallet_dir")
    /\ \E ws \in SUBSET WalletNames : existing_wallets' = ws
    /\ UNCHANGED << loaded_wallets, wallet_idx, addr_vars, details_vars, tx_raw,
                    input_vars, output_vars, out_file >>

ListWallets ==
    /\ Proceed("list_wallets")
    /\ \E ws \in SUBSET WalletNames : loaded_wallets' = ws
    /\ UNCHANGED << existing_wallets, wallet_idx, addr_vars, details_vars, tx_raw,
                    input_vars, output_vars, out_file >>

NoCall == << >>

\* The provisioning decision as a bug would have it: the loaded set is
\* consulted first.
provision_call_loaded_first(name, existing, loaded) ==
    IF name \notin loaded THEN << Call("loadwallet", name, 0) >>
    ELSE IF name \notin existing THEN << Call("createwallet", name, 0) >>
    ELSE NoCall

\* The call one iteration of the provisioning loop issues (lines 55-63).
provision_call(name, existing, loaded) ==
    IF name \notin existing THEN << Call("createwallet", name, 0) >>
    ELSE IF name \notin loaded THEN << Call("loadwallet", name, 0) >>
    ELSE NoCall

\* One iteration of the loop over target_wallets; `ok` is whether the node
\* carries out the call the iteration issues.
ProvisionWallet ==
    /\ status = "running"
    /\ pc = "provision"
    /\ wallet_idx < Len(target_wallets)
    /\ LET name == target_wallets[wallet_idx + 1]
           call == provision_call(name, existing_wallets, loaded_wallets)
       IN /\ wallet_idx' = wallet_idx + 1
          /\ rpc_log' = rpc_log \o call
          /\ \E ok \in BOOLEAN :
                /\ (call = NoCall) => ok
                /\ status' = IF ok THEN "running" ELSE "error"
                /\ pc' = IF ok /\ wallet_idx' = Len(target_wallets)
                         THEN step_after(pc) ELSE pc
    /\ UNCHANGED << existing_wallets, loaded_wallets, addr_vars, details_vars,
                    tx_raw, input_vars, output_vars, out_file >>

\* get_new_address on the Miner wallet, then require_network(Regtest).unwrap().
GetMinerAddress ==
    /\ status = "running"
    /\ pc = "miner_address"
    /\ rpc_log' = Append(rpc_log, RpcAt(pc))
    /\ \E net \in Networks :
          LET a == require_network([network |-> net, payload |-> "miner"], Regtest)
          IN IF IsSome(a)
             THEN miner_address' = a /\ pc' = step_after(pc) /\ UNCHANGED status
             ELSE status' = "panic" /\ UNCHANGED << pc, miner_address >>
    /\ UNCHANGED << wallet_vars, trader_address, send_tx, details_vars, tx_raw,
                    input_vars, output_vars, out_file >>

Generate101 ==
    /\ Proceed("generate_101")
    /\ UNCHANGED << wallet_vars, addr_vars, details_vars, tx_raw, input_vars,
                    output_vars, out_file >>

\* get_new_address on the Trader wallet, then require_network(Regtest).unwrap().
GetTraderAddress ==
    /\ status = "running"
    /\ pc = "trader_address"
    /\ rpc_log' = Append(rpc_log, RpcAt(pc))
    /\ \E net \in Networks :
          LET a == require_network([network |-> net, payload |-> "trader"], Regtest)
          IN IF IsSome(a)
             THEN trader_address' = a /\ pc' = step_after(pc) /\ UNCHANGED status
             ELSE status' = "panic" /\ UNCHANGED << pc, trader_address >>
    /\ UNCHANGED << wallet_vars, miner_address, send_tx, details_vars, tx_raw,
                    input_vars, output_vars, out_file >>

SendToAddress ==
    /\ Proceed("send")
    /\ send_tx' = Some("txid")
    /\ UNCHANGED << wallet_vars, miner_address, trader_address, details_vars,
                    tx_raw, input_vars, output_vars, out_file >>

GetMempoolEntry ==
    /\ Proceed("mempool")
    /\ UNCHANGED << wallet_vars, addr_vars, details_vars, tx_raw, input_vars,
                    output_vars, out_file >>

Generate1 ==
    /\ Proceed("generate_1")
    /\ UNCHANGED << wallet_vars, addr_vars, details_vars, tx_raw, input_vars,
                    output_vars, out_file >>

GetBalance ==
    /\ Proceed("balance")
    /\ UNCHANGED << wallet_vars, addr_vars, details_vars, tx_raw, input_vars,
                    output_vars, out_file >>

\* get_transaction, then fee, block_height and block_hash (lines 118-121):
\* an absent fee or height is replaced, an absent hash panics.
GetTransaction ==
    /\ status = "running"
    /\ pc = "get_transaction"
    /\ rpc_log' = Append(rpc_log, RpcAt(pc))
    /\ \E d \in TxDetails :
          /\ tx_details' = d
          /\ fee' = normalize_fee(d.fee)
          /\ block_height' = height_or_default(d.blockheight)
          /\ IF IsSome(d.blockhash)
             THEN block_hash' = d.blockhash /\ pc' = step_after(pc) /\ UNCHANGED status
             ELSE status' = "panic" /\ UNCHANGED << pc, block_hash >>
    /\ UNCHANGED << wallet_vars, addr_vars, tx_raw, input_vars, output_vars,
                    out_file >>

GetRawTransaction ==
    /\ Proceed("get_raw")
    /\ \E tx \in TxViews(RunOutputs, MaxVoutRun) : tx_raw' = tx
    /\ UNCHANGED << wallet_vars, addr_vars, details_vars, input_vars, output_vars,
                    out_file >>

\* Lines 147-167.  The previous transaction is asked for only when the first
\* vin entry has a txid; the node's answer is resp.
ResolveInput ==
    /\ status = "running"
    /\ pc = "resolve_input"
    /\ \E resp \in PrevResponses :
          /\ IF fetches_prev(tx_raw)
             THEN /\ prev_tx' = resp
                  /\ rpc_log' = Append(rpc_log, Call("getrawtransaction", "prev", 0))
             ELSE /\ prev_tx' = PrevNotAsked
                  /\ UNCHANGED rpc_log
          /\ LET r == resolve_input(tx_raw, resp)
             IN IF r.tag = "panic"
                THEN status' = "panic" /\ UNCHANGED << pc, input_address, input_amount >>
                ELSE /\ input_address' = r.addr
                     /\ input_amount' = r.amt
                     /\ pc' = step_after(pc)
                     /\ UNCHANGED status
    /\ UNCHANGED << wallet_vars, addr_vars, details_vars, tx_raw, output_vars,
                    out_file >>

\* Lines 171-186.
ClassifyOutputs ==
    /\ status = "running"
    /\ pc = "classify"
    /\ LET r == classify(tx_raw.vout, fold_init, Unwrap(trader_address))
       IN IF r.tag = "panic"
          THEN status' = "panic" /\ UNCHANGED << pc, output_vars >>
          ELSE /\ trader_output_amount' = r.acc.trader_amt
               /\ change_address' = r.acc.change_addr
               /\ change_amount' = r.acc.change_amt
               /\ pc' = step_after(pc)
               /\ UNCHANGED status
    /\ UNCHANGED << rpc_log, wallet_vars, addr_vars, details_vars, tx_raw,
                    input_vars, out_file >>

\* File::create("../out.txt") succeeds: the file exists and is empty.
CreateFile ==
    /\ status = "running"
    /\ pc = "create_file"
    /\ out_file' = [exists |-> TRUE, lines |-> << >>]
    /\ pc' = step_after(pc)
    /\ UNCHANGED << status, rpc_log, wallet_vars, addr_vars, details_vars, tx_raw,
                    input_vars, output_vars >>

RecordLines == 10

\* The k-th writeln! of lines 199-216.
RecordLine(k) ==
    CASE k = 1  -> Unwrap(send_tx)
      [] k = 2  -> addr_line(input_address)
      [] k = 3  -> to_btc(input_amount)
      [] k = 4  -> to_string(Unwrap(trader_address))
      [] k = 5  -> to_btc(trader_output_amount)
      [] k = 6  -> addr_line(change_address)
      [] k = 7  -> to_btc(change_amount)
      [] k = 8  -> to_btc(fee)
      [] k = 9  -> block_height
      [] k = 10 -> Unwrap(block_hash)

\* The next writeln! succeeds; after the tenth main returns Ok(()).
WriteLine ==
    /\ status = "running"
    /\ pc = "write"
    /\ LET k == Len(out_file.lines) + 1
       IN /\ out_file' = [out_file EXCEPT !.lines = Append(@, RecordLine(k))]
          /\ IF k = RecordLines
             THEN pc' = step_after(pc) /\ status' = "ok"
             ELSE UNCHANGED << pc, status >>
    /\ UNCHANGED << rpc_log, wallet_vars, addr_vars, details_vars, tx_raw,
                    input_vars, output_vars >>

\* File::create or the next writeln! fails: main returns the error and the
\* file stays as it is.
IoFails ==
    /\ status = "running"
    /\ pc \in { "create_file", "write" }
    /\ status' = "error"
    /\ UNCHANGED << pc, rpc_log, wallet_vars, addr_vars, details_vars, tx_raw,
                    input_vars, output_vars, out_file >>

Next ==
    \/ GetBlockchainInfo
    \/ ListWalletDir
    \/ ListWallets
    \/ ProvisionWallet
    \/ GetMinerAddress
    \/ Generate101
    \/ GetTraderAddress
    \/ SendToAddress
    \/ GetMempoolEntry
    \/ Generate1
    \/ GetBalance
    \/ GetTransaction
    \/ GetRawTransaction
    \/ ResolveInput
    \/ ClassifyOutputs
    \/ CreateFile
    \/ WriteLine
    \/ IoFails
    \/ RpcFails

Spec == Init /\ [][Next]_vars

-----------------------------------------------------------------------------
\* The reconstruction alone: the state after get_raw of a run in which both
\* wallets were found loaded, with the raw transaction drawn from a larger
\* set.  Its steps are ResolveInput and ClassifyOutputs.

ReconLog ==
    LET idx == << 1, 2, 3, 5, 6, 7, 8, 9, 10, 11, 12, 13 >>
    IN [i \in 1..Len(idx) |-> RpcAt(Steps[idx[i]])]

InitRecon ==
    /\ pc = "resolve_input"
    /\ status = "running"
    /\ rpc_log = ReconLog
    /\ existing_wallets = WalletNames
    /\ loaded_wallets = WalletNames
    /\ wallet_idx = Len(target_wallets)
    /\ miner_address = Some(MinerAddr)
    /\ trader_address = Some(TraderAddr)
    /\ send_tx = Some("txid")
    /\ tx_details = [read |-> TRUE, fee |-> Some(-15000), blockheight |-> Some(102),
                     blockhash |-> Some("hash102")]
    /\ fee = normalize_fee(tx_details.fee)
    /\ block_height = height_or_default(tx_details.blockheight)
    /\ block_hash = tx_details.blockhash
    /\ tx_raw \in TxViews(Outputs, MaxVout)
    /\ prev_tx = PrevNotAsked
    /\ input_address = None
    /\ input_amount = 0
    /\ trader_output_amount = 0
    /\ change_address = None
    /\ change_amount = 0
    /\ out_file = NoFile

NextRecon ==
    \/ ResolveInput
    \/ ClassifyOutputs

SpecRecon == InitRecon /\ [][NextRecon]_vars

-----------------------------------------------------------------------------
\* Properties.

Ended == status \in { "error", "panic" }

\* The step of main at p has been passed.
Past(p) == StepIndex(pc) > StepIndex(p)

\* The first input references a previous transaction that was fetched and
\* whose vout list holds the referenced index.
Resolvable ==
    /\ fetches_prev(tx_raw)
    /\ prev_tx.tag = "ok"
    /\ tx_raw.vin[1].vout < Len(prev_tx.vout)

ReferencedOutput == prev_tx.vout[tx_raw.vin[1].vout + 1]

\* The fetch of the previous transaction failed, or the referenced index is
\* outside its vout list.
Degraded ==
    /\ fetches_prev(tx_raw)
    /\ \/ prev_tx.tag = "err"
       \/ prev_tx.tag = "ok" /\ tx_raw.vin[1].vout >= Len(prev_tx.vout)

\* An output's address as the claims speak of it: absent when the field is
\* absent or names no regtest address.
AddressOf(o) ==
    IF IsSome(o.address) /\ from_str(Unwrap(o.address)).ok
    THEN require_network(from_str(Unwrap(o.address)), Regtest)
    ELSE None

WellFormed(o) == IsSome(o.address) => from_str(Unwrap(o.address)).ok

HasAmount(o) == IsSome(o.value) /\ IsSome(from_btc(Unwrap(o.value)))

AmountOf(o) == Unwrap(from_btc(Unwrap(o.value)))

\* C1: when the first input's previous transaction is fetched and the index
\* is within its vout list, the recorded input address and amount are the
\* (optional) address and the amount of the referenced output, also when
\* that output carries no address.
C1_InputIsReferencedOutput ==
    (Resolvable /\ WellFormed(ReferencedOutput) /\ HasAmount(ReferencedOutput))
        => /\ Past("resolve_input")
           /\ input_address = AddressOf(ReferencedOutput)
           /\ input_amount = AmountOf(ReferencedOutput)

\* A decodable output: its address string parses and its value is an
\* Amount.  These are the entries of vout the classification folds over.
Decodable(o) ==
    /\ IsSome(o.address)
    /\ from_str(Unwrap(o.address)).ok
    /\ HasAmount(o)

KeptOutputs == SelectSeq(tx_raw.vout, Decodable)

Classified == Past("classify")

PaysTrader(o) == AddressOf(o) = trader_address

C3_SoftDegradation ==
    Degraded =>
        /\ Past("resolve_input")
        /\ input_address = None
        /\ input_amount = 0
        /\ Len(out_file.lines) >= 2 => out_file.lines[2] = EmptyString
        /\ Len(out_file.lines) >= 3 => out_file.lines[3] = 0

\* Witness of C3: a run whose fetch of the previous transaction failed has
\* classified the outputs and written the whole record.
C3_Witness ==
    /\ pc = "done"
    /\ prev_tx.tag = "err"
    /\ Len(tx_raw.vout) > 0
    /\ Len(out_file.lines) = RecordLines
    /\ out_file.lines[2] = EmptyString

\* C4: a run that ends in a fatal failure never leaves a record of fewer
\* than ten lines in the output file.
C4_NoPartialRecord ==
    Ended => ~(out_file.exists /\ Len(out_file.lines) \in 1..(RecordLines - 1))

\* C5: if the block height or the block hash is absent from the
\* transaction's info, no record is written.
C5_MetadataMandatory ==
    (tx_details.read /\ (~IsSome(tx_details.blockheight) \/ ~IsSome(tx_details.blockhash)))
        => Len(out_file.lines) = 0

\* An output whose address cannot be decoded, as C6 lists it: the address
\* field is absent, malformed, or not valid for regtest.
AddressDecodes(o) == IsSome(AddressOf(o))

\* C6: outputs whose address cannot be decoded take no part in the
\* classification: its result is that of the other outputs alone, and they
\* never end the run.
C6_UndecodableSkipped ==
    /\ ~(pc = "classify" /\ status = "panic")
    /\ Classified =>
          LET r == classify(SelectSeq(tx_raw.vout, AddressDecodes), fold_init,
                            Unwrap(trader_address))
          IN /\ trader_output_amount = r.acc.trader_amt
             /\ change_address = r.acc.change_addr
             /\ change_amount = r.acc.change_amt

\* The wallet calls issued for a name.
WalletCall(c) == c.method \in { "createwallet", "loadwallet", "unloadwallet" }

WalletCallsFor(name) ==
    LET Is(c) == WalletCall(c) /\ c.name = name
    IN SelectSeq(rpc_log, Is)

Entered(name) == \E i \in 1..wallet_idx : target_wallets[i] = name

\* C7: for each wallet name the provisioner issues exactly one of create
\* (iff the name is not on disk), load (iff on disk and not loaded) or no
\* call (iff on disk and loaded), and never unloads or deletes.
C7_ProvisioningPolicy ==
    /\ \A i \in 1..Len(rpc_log) :
          WalletCall(rpc_log[i]) => rpc_log[i].method \in { "createwallet", "loadwallet" }
    /\ \A name \in WalletNames :
          LET calls == WalletCallsFor(name)
          IN IF ~Entered(name) THEN calls = << >>
             ELSE /\ Len(calls) <= 1
                  /\ (calls = << Call("createwallet", name, 0) >>)
                        <=> (name \notin existing_wallets)
                  /\ (calls = << Call("loadwallet", name, 0) >>)
                        <=> (name \in existing_wallets /\ name \notin loaded_wallets)
                  /\ (calls = << >>)
                        <=> (name \in existing_wallets /\ name \in loaded_wallets)

\* Witness of C7: Miner was loaded but not on disk and is created, Trader was
\* on disk but not loaded and is loaded.
C7_Witness ==
    /\ wallet_idx = Len(target_wallets)
    /\ existing_wallets = { "Trader" }
    /\ loaded_wallets = { "Miner" }
    /\ WalletCallsFor("Miner") = << Call("createwallet", "Miner", 0) >>
    /\ WalletCallsFor("Trader") = << Call("loadwallet", "Trader", 0) >>

\* The kept outputs that do not pay the Trader address.
ChangeCandidate(o) == Decodable(o) /\ ~PaysTrader(o)

ChangeCandidates == SelectSeq(tx_raw.vout, ChangeCandidate)

PaymentCandidate(o) == Decodable(o) /\ PaysTrader(o)

PaymentCandidates == SelectSeq(tx_raw.vout, PaymentCandidate)

Last(s) == s[Len(s)]

C9_FeeAbsolute ==
    /\ tx_details.read =>
          /\ fee = Abs(IF IsSome(tx_details.fee) THEN Unwrap(tx_details.fee) ELSE 0)
          /\ fee >= 0
    /\ Len(out_file.lines) >= 8 =>
          /\ out_file.lines[8] = to_btc(fee)
          /\ out_file.lines[8] >= 0

\* Witness of C9: a reported fee of -15000 is in the record as 15000.
C9_Witness ==
    /\ pc = "done"
    /\ tx_details.fee = Some(-15000)
    /\ out_file.lines[8] = to_btc(15000)

\* The place of a node call in the order C10 states.
Rank(c) ==
    CASE c.method = "getblockchaininfo" -> 1
      [] c.method = "listwalletdir" -> 2
      [] c.method = "listwallets" -> 3
      [] WalletCall(c) /\ c.name = "Miner" -> 4
      [] WalletCall(c) /\ c.name = "Trader" -> 5
      [] c.method = "getnewaddress" /\ c.name = "Miner" -> 6
      [] c.method = "generatetoaddress" /\ c.n = 101 -> 7
      [] c.method = "getnewaddress" /\ c.name = "Trader" -> 8
      [] c.method = "sendtoaddress" -> 9
      [] c.method = "getmempoolentry" -> 10
      [] c.method = "generatetoaddress" /\ c.n = 1 -> 11
      [] c.method = "getbalance" -> 12
      [] c.method = "gettransaction" -> 13
      [] c.method = "getrawtransaction" /\ c.name = "tx" -> 14
      [] c.method = "getrawtransaction" /\ c.name = "prev" -> 15
      [] OTHER -> 0

MandatoryRanks == (1..14) \ { 4, 5 }

\* The rank of the i-th call issued; 0 stands for the start of the run.
RankAt(i) == IF i = 0 THEN 0 ELSE Rank(rpc_log[i])

\* The ranks of the calls issued so far.
IssuedRanks == { RankAt(i) : i \in 1..Len(rpc_log) }

Issued(r) == r \in IssuedRanks

\* C10: the node calls are issued in the stated order, each at most once
\* and only after every earlier step: wallets provisioned, 101 blocks
\* mined, one payment, one confirming block, the transaction's details and
\* raw data read, the record written.  Every call ranks above the one
\* before it and no mandatory call is skipped between the two.
C10_StepOrder ==
    LET issued == IssuedRanks
    IN /\ \A i \in 1..Len(rpc_log) :
             LET before == RankAt(i - 1)
                 this == RankAt(i)
             IN /\ before < this
                /\ MandatoryRanks \cap ((before + 1)..(this - 1)) = {}
                /\ this > 5 => wallet_idx = Len(target_wallets)
       /\ IsSome(send_tx) => 7 \in issued
       /\ tx_details.read => 11 \in issued /\ 9 \in issued
       /\ out_file.exists => 13 \in issued /\ 14 \in issued

\* Witness of C10: a complete run that created both wallets.
C10_Witness ==
    /\ pc = "done"
    /\ status = "ok"
    /\ Len(out_file.lines) = RecordLines
    /\ \A r \in 1..14 : Issued(r)

====
